---- MODULE Spec2Model ----
(***************************************************************************)
(* Model of the triple-layer persistence manager of hoopin-websiteV2       *)
(* (src/js/db-manager.js, class DBManager): localStorage, IndexedDB, the   *)
(* Firebase Realtime Database, the syncQueue object store and the drain    *)
(* (syncPendingChanges).                                                   *)
(***************************************************************************)
EXTENDS Integers, Sequences, FiniteSets, TLC

(***************************************************************************)
(* Bounds                                                                  *)
(***************************************************************************)
NumIds == 2
MaxClock == 2
MaxWrites == 2
MaxReads == 1
MaxDrains == 2
MaxFaults == 1
MaxPlayers == 6
MaxBench == 1

\* the calls of a run address NumIds teams and one player
Ids == 1..NumIds
Collections == {"teams", "players"}
IdsOf(collection) == IF collection = "teams" THEN Ids ELSE {1}
Keys == {k \in Collections \X Ids : k[2] \in IdsOf(k[1])}
DrainIds == 1..MaxDrains

(***************************************************************************)
(* Values.  A record is the object handed to save(): it carries its own    *)
(* primary key (teamId / playerId), the stamped updatedAt and the rest of  *)
(* its fields (data; the n-th save of a record passes the fields n, so     *)
(* that two edits of a record differ even within one millisecond).  Null   *)
(* is JavaScript's null.                                                   *)
(***************************************************************************)
Null == [id |-> 0, updatedAt |-> 0, data |-> 0]
Rec(id, t, p) == [id |-> id, updatedAt |-> t, data |-> p]

NoEntry == [collection |-> "none", id |-> 0, data |-> Null,
            operation |-> "none", timestamp |-> 0]
NullIndex == <<0>>

EmptyStore == [k \in Keys |-> Null]
EmptyQueue == [i \in Ids |-> NoEntry]

VARIABLES
  isOnline,     \* this.isOnline
  db,           \* this.db is an open IndexedDB connection (TRUE) or null
  firebaseInitialized, \* isFirebaseAvailable()
  now,          \* Date.now()
  lsItems,      \* localStorage: `${collection}_${id}` -> record
  lsIndex,      \* localStorage: `${collection}_index` -> list of ids, or absent
  idb,          \* IndexedDB object stores groups/teams/players
  syncQueue,    \* IndexedDB object store syncQueue, by its key (keyPath 'id')
  remote,       \* Firebase Realtime Database, `${collection}/${id}` -> record
  drains,       \* the running onsuccess handlers of syncPendingChanges
  ret,          \* what the last completed call returned to its caller
  writes,       \* number of save and delete calls issued so far
  reads,        \* number of get and getAll calls issued so far
  awaiting,     \* calls suspended at an await of a Firebase promise
  pending,      \* the get and the save suspended at an await of a tier
  ratings,      \* a player's stats and cap breakers and the ratings computed
  division,     \* a team's roster and the division computed for it
  roster,       \* the roster stored in a team record: starters and bench
  hist          \* observations about the run (history only)

vars == <<isOnline, db, firebaseInitialized, now, lsItems, lsIndex, idb,
          syncQueue, remote, drains, ret, writes, reads, awaiting, pending,
          ratings, division, roster, hist>>

(***************************************************************************)
(* Utilities (src/unnamed/part_000)                                        *)
(***************************************************************************)
\* JSON.parse(null) is null and does not throw, so the fallback is returned
\* only for a malformed string; a missing item parses to null.
safeJSONParse(item, fallback) == item

isFirebaseAvailable == firebaseInitialized

(***************************************************************************)
(* Layer 3: localStorage                                                   *)
(***************************************************************************)
Contains(seq, x) == \E n \in 1..Len(seq) : seq[n] = x

\* a localStorage write that stores nothing
saveToLocalStorage_dropped(items, index, collection, id, data, setItemOk) ==
  [items |-> items, index |-> index]

\* setItemOk = FALSE: localStorage.setItem throws (quota exceeded); the
\* error is swallowed and nothing is written.  Otherwise the item is written;
\* the index update runs on the parsed index, and a missing index parses to
\* null, on which index.includes(id) throws: swallowed after the item write.
saveToLocalStorage(items, index, collection, id, data, setItemOk) ==
  IF ~setItemOk
    THEN [items |-> items, index |-> index]
    ELSE LET written == [items EXCEPT ![<<collection, id>>] = data]
             parsed == safeJSONParse(index[collection], <<>>)
         IN  IF parsed = NullIndex
               THEN [items |-> written, index |-> index]
               ELSE IF Contains(parsed, id)
                 THEN [items |-> written, index |-> index]
                 ELSE [items |-> written,
                       index |-> [index EXCEPT ![collection] = Append(parsed, id)]]

getFromLocalStorage(items, collection, id) ==
  safeJSONParse(items[<<collection, id>>], Null)

RECURSIVE MapFilter(_, _, _)
MapFilter(items, collection, index) ==
  IF index = <<>> THEN <<>>
  ELSE LET r == getFromLocalStorage(items, collection, Head(index))
           rest == MapFilter(items, collection, Tail(index))
       IN  IF r = Null THEN rest ELSE <<r>> \o rest

\* index.map on a null index throws: caught, [] is returned
getAllFromLocalStorage(items, index, collection) ==
  LET parsed == safeJSONParse(index[collection], <<>>)
  IN  IF parsed = NullIndex THEN <<>>
      ELSE MapFilter(items, collection, parsed)

RECURSIVE FilterOut(_, _)
FilterOut(seq, x) ==
  IF seq = <<>> THEN <<>>
  ELSE IF Head(seq) = x THEN FilterOut(Tail(seq), x)
       ELSE <<Head(seq)>> \o FilterOut(Tail(seq), x)

\* removeItem, then the index update; index.filter on a null index throws
\* (swallowed) after the item was removed
deleteFromLocalStorage(items, index, collection, id) ==
  LET removed == [items EXCEPT ![<<collection, id>>] = Null]
      parsed == safeJSONParse(index[collection], <<>>)
  IN  IF parsed = NullIndex
        THEN [items |-> removed, index |-> index]
        ELSE [items |-> removed,
              index |-> [index EXCEPT ![collection] = FilterOut(parsed, id)]]

(***************************************************************************)
(* Layer 2: IndexedDB.  Outcome of a request: "ok", "throws" (transaction  *)
(* or request creation throws synchronously: caught, promise resolves) or  *)
(* "error" (request.onerror: promise rejects).                             *)
(***************************************************************************)
IdbOutcomes == {"ok", "throws", "error"}

\* store.put(data): the key is taken from the record (keyPath), not from id
saveToIndexedDB(store, isOpen, collection, id, data, outcome) ==
  IF ~isOpen THEN store
  ELSE IF outcome = "ok" THEN [store EXCEPT ![<<collection, data.id>>] = data]
  ELSE store

\* a durable tier that is never found to hold the record
getFromIndexedDB_missing(store, isOpen, collection, id, outcome) == Null

getFromIndexedDB(store, isOpen, collection, id, outcome) ==
  IF ~isOpen THEN Null
  ELSE IF outcome = "ok" THEN store[<<collection, id>>]
  ELSE Null

RECURSIVE ScanFrom(_, _, _)
ScanFrom(store, collection, i) ==
  IF i \notin IdsOf(collection) THEN <<>>
  ELSE IF store[<<collection, i>>] = Null THEN ScanFrom(store, collection, i + 1)
       ELSE <<store[<<collection, i>>]>> \o ScanFrom(store, collection, i + 1)

\* store.getAll(): every record of the object store, in key order
getAllFromIndexedDB(store, isOpen, collection, outcome) ==
  IF ~isOpen THEN <<>>
  ELSE IF outcome = "ok" THEN ScanFrom(store, collection, 1)
  ELSE <<>>

deleteFromIndexedDB(store, isOpen, collection, id, outcome) ==
  IF ~isOpen THEN store
  ELSE IF outcome = "ok" THEN [store EXCEPT ![<<collection, id>>] = Null]
  ELSE store

\* the promise of an IndexedDB operation rejects
IdbRejects(isOpen, outcome) == isOpen /\ outcome = "error"

(***************************************************************************)
(* Layer 1: Firebase.  ok = FALSE: the operation fails (network or         *)
(* authorization error) and leaves the database unchanged.                 *)
(***************************************************************************)
saveToFirebase(tree, collection, id, data, ok) ==
  IF ok THEN [tree EXCEPT ![<<collection, id>>] = data] ELSE tree

getFromFirebase(tree, collection, id, ok) ==
  IF ok THEN tree[<<collection, id>>] ELSE Null

\* Object.values(snapshot.val()): the children in key order
getAllFromFirebase(tree, collection, ok) ==
  IF ok THEN ScanFrom(tree, collection, 1) ELSE <<>>

deleteFromFirebase(tree, collection, id, ok) ==
  IF ok THEN [tree EXCEPT ![<<collection, id>>] = Null] ELSE tree

(***************************************************************************)
(* Sync queue.  The syncQueue store has keyPath 'id' with a key generator, *)
(* and syncItem carries the record id in its id property, so store.add     *)
(* uses the record id as the key of the entry; add on an existing key      *)
(* fails with a ConstraintError event that nothing observes.               *)
(***************************************************************************)
syncItem(collection, id, data, operation, timestamp) ==
  [collection |-> collection, id |-> id, data |-> data,
   operation |-> operation, timestamp |-> timestamp]

\* an enqueue that stores with put and so replaces the entry under its key
queueForSync_put(queue, isOpen, collection, id, data, operation, timestamp) ==
  IF ~isOpen THEN queue
  ELSE [queue EXCEPT ![id] = syncItem(collection, id, data, operation, timestamp)]

queueForSync(queue, isOpen, collection, id, data, operation, timestamp) ==
  IF ~isOpen THEN queue
  ELSE IF queue[id] # NoEntry THEN queue
  ELSE [queue EXCEPT ![id] = syncItem(collection, id, data, operation, timestamp)]

RECURSIVE QueueFrom(_, _)
QueueFrom(queue, i) ==
  IF i > NumIds THEN <<>>
  ELSE IF queue[i] = NoEntry THEN QueueFrom(queue, i + 1)
       ELSE <<queue[i]>> \o QueueFrom(queue, i + 1)

\* a listing that returns every entry twice
queueGetAll_twice(queue) == QueueFrom(queue, 1) \o QueueFrom(queue, 1)

\* store.getAll() on syncQueue: the entries in key order
queueGetAll(queue) == QueueFrom(queue, 1)

\* a drain that stamps the record again when it delivers it
applyItem_restamped(tree, item, ok) ==
  IF item.operation = "save"
    THEN saveToFirebase(tree, item.collection, item.id,
                        [item.data EXCEPT !.updatedAt = now], ok)
  ELSE IF item.operation = "delete"
    THEN deleteFromFirebase(tree, item.collection, item.id, ok)
  ELSE tree

\* the remote operation of one queue entry (the item loop's if / else if)
applyItem(tree, item, ok) ==
  IF item.operation = "save"
    THEN saveToFirebase(tree, item.collection, item.id, item.data, ok)
  ELSE IF item.operation = "delete"
    THEN deleteFromFirebase(tree, item.collection, item.id, ok)
  ELSE tree

\* The readwrite transaction of syncPendingChanges is active only while the
\* getAll success event is dispatched.  store.delete(item.id) runs after an
\* await on a network operation, when the transaction has already
\* committed: it throws TransactionInactiveError, which the item loop's
\* catch logs.
transactionActiveAfterAwait == FALSE

removeFromQueue(queue, item, remoteOk) ==
  IF remoteOk /\ transactionActiveAfterAwait
    THEN [queue EXCEPT ![item.id] = NoEntry]
    ELSE queue

(***************************************************************************)
(* Bookkeeping of the model                                                *)
(***************************************************************************)
IdleDrain == [active |-> FALSE, items |-> <<>>, idx |-> 1, clean |-> TRUE,
              snap |-> EmptyStore, preApplied |-> FALSE, failed |-> {}]

NoRet == [op |-> "none", collection |-> "none", id |-> 0, result |-> "none",
          rec |-> Null, list |-> <<>>, remote |-> "none", faults |-> FALSE]

NoWrite == [kind |-> "none", rec |-> Null]

NoCall == [pc |-> "idle", collection |-> "none", id |-> 0, data |-> Null,
           behind |-> FALSE]

NoPending == [get |-> NoCall, save |-> NoCall]

\* the roster of a team as Teams.create stores it
NoRoster == [starters |-> <<>>, bench |-> <<>>]

InitHist == [nFaults |-> 0,
             lastWrite |-> [k \in Keys |-> NoWrite],
             saves |-> [k \in Keys |-> 0], noDelete |-> TRUE,
             allOffline |-> TRUE, drained |-> FALSE,
             deleted |-> [k \in Keys |-> FALSE],
             raced |-> [k \in Keys |-> Null]]

NoRatings == [stats |-> <<>>, capBreakers |-> <<>>,
              calculator |-> <<>>, legacy |-> <<>>]

NoDivision == [players |-> <<>>, team |-> FALSE, saved |-> FALSE,
               result |-> "none"]

KeyOf(item) == <<item.collection, item.id>>

\* every entry of items is already reflected by the remote tree
AlreadyApplied(tree, items) ==
  \A n \in 1..Len(items) :
    IF items[n].operation = "save" THEN tree[KeyOf(items[n])] = items[n].data
    ELSE tree[KeyOf(items[n])] = Null

\* the failures injected into one run are bounded
Cost(failed) == IF failed THEN 1 ELSE 0
Affordable(n) == hist.nFaults + n <= MaxFaults
\* a failure is chosen only for an operation that the call performs
Relevant(used, failed) == used \/ ~failed

\* a running drain still has to attempt a 'save' entry for key k whose
\* record was stamped before t
PendingOlder(ds, k, t) ==
  \E d \in DrainIds :
    /\ ds[d].active
    /\ \E n \in ds[d].idx..Len(ds[d].items) :
         /\ ds[d].items[n].operation = "save"
         /\ KeyOf(ds[d].items[n]) = k
         /\ ds[d].items[n].data.updatedAt < t

\* a step outside drain d that may change the remote tree
Disturb(ds) ==
  [d \in DrainIds |-> IF ds[d].active THEN [ds[d] EXCEPT !.clean = FALSE] ELSE ds[d]]

Init ==
  /\ isOnline \in BOOLEAN
  /\ db \in BOOLEAN
  /\ firebaseInitialized \in BOOLEAN
  /\ now = 1
  /\ lsItems = EmptyStore
  /\ lsIndex = [c \in Collections |-> NullIndex]
  /\ idb = EmptyStore
  /\ syncQueue = EmptyQueue
  /\ remote = EmptyStore
  /\ drains = [d \in DrainIds |-> IdleDrain]
  /\ ret = NoRet
  /\ writes = 0
  /\ reads = 0
  /\ awaiting = 0
  /\ pending = NoPending
  /\ ratings = NoRatings
  /\ division = NoDivision
  /\ roster = NoRoster
  /\ hist = InitHist

\* Date.now(): the clock does not go backwards
Clock == {t \in now..(now + 1) : t <= MaxClock}

(***************************************************************************)
(* save(collection, id, data)                                              *)
(***************************************************************************)
save(collection, id, payload, timestamp, setItemOk, idbOutcome, fbOk) ==
  LET dataWithTimestamp == Rec(id, timestamp, payload)
      k == <<collection, id>>
      l3 == saveToLocalStorage(lsItems, lsIndex, collection, id,
                               dataWithTimestamp, setItemOk)
      l2 == saveToIndexedDB(idb, db, collection, id, dataWithTimestamp, idbOutcome)
      l2Rejects == IdbRejects(db, idbOutcome)
      toFirebase == isOnline /\ isFirebaseAvailable
      threw == l2Rejects \/ (toFirebase /\ ~fbOk)
      queued == ~l2Rejects /\ ~toFirebase
      injected == Cost(~setItemOk) + Cost(idbOutcome # "ok") + Cost(~fbOk)
  IN
  /\ writes < MaxWrites
  /\ Relevant(db, idbOutcome # "ok")
  /\ Relevant(~l2Rejects /\ toFirebase, ~fbOk)
  /\ Affordable(injected)
  /\ writes' = writes + 1
  /\ lsItems' = l3.items
  /\ lsIndex' = l3.index
  /\ idb' = l2
  /\ remote' = IF ~l2Rejects /\ toFirebase
                 THEN saveToFirebase(remote, collection, id, dataWithTimestamp, fbOk)
                 ELSE remote
  /\ syncQueue' = IF queued
                    THEN queueForSync(syncQueue, db, collection, id,
                                      dataWithTimestamp, "save", timestamp)
                    ELSE syncQueue
  /\ ret' = [NoRet EXCEPT !.op = "save", !.collection = collection, !.id = id,
               !.result = IF threw THEN "throw" ELSE "true",
               !.rec = dataWithTimestamp,
               !.remote = IF l2Rejects \/ ~toFirebase THEN "none"
                          ELSE IF fbOk THEN "ok" ELSE "failed",
               !.faults = ~setItemOk \/ (db /\ idbOutcome # "ok")]
  /\ drains' = Disturb(drains)
  /\ hist' = [hist EXCEPT
               !.nFaults = @ + injected,
               !.lastWrite[k] = IF threw THEN @
                                ELSE [kind |-> "save", rec |-> dataWithTimestamp],
               !.saves[k] = @ + 1,
               !.allOffline = @ /\ queued,
               !.drained = FALSE,
               !.deleted[k] = FALSE,
               !.raced[k] = IF ~l2Rejects /\ toFirebase /\ fbOk
                                /\ PendingOlder(drains, k, timestamp)
                              THEN dataWithTimestamp ELSE Null]
  /\ now' = timestamp
  /\ UNCHANGED <<isOnline, db, firebaseInitialized, awaiting, pending, ratings,
                 division, roster, reads>>

Save ==
  \E collection \in Collections, id \in Ids, timestamp \in Clock,
     setItemOk \in BOOLEAN, idbOutcome \in IdbOutcomes, fbOk \in BOOLEAN :
    /\ id \in IdsOf(collection)
    /\ save(collection, id, hist.saves[<<collection, id>>] + 1, timestamp,
            setItemOk, idbOutcome, fbOk)

(***************************************************************************)
(* delete(collection, id)                                                  *)
(***************************************************************************)
delete(collection, id, idbOutcome, fbOk) ==
  LET k == <<collection, id>>
      l3 == deleteFromLocalStorage(lsItems, lsIndex, collection, id)
      l2 == deleteFromIndexedDB(idb, db, collection, id, idbOutcome)
      l2Rejects == IdbRejects(db, idbOutcome)
      toFirebase == isOnline /\ isFirebaseAvailable
      threw == l2Rejects \/ (toFirebase /\ ~fbOk)
      queued == ~l2Rejects /\ ~toFirebase
      faults == db /\ idbOutcome # "ok"
      injected == Cost(idbOutcome # "ok") + Cost(~fbOk)
  IN
  /\ writes < MaxWrites
  /\ Relevant(db, idbOutcome # "ok")
  /\ Relevant(~l2Rejects /\ toFirebase, ~fbOk)
  /\ Affordable(injected)
  /\ writes' = writes + 1
  /\ lsItems' = l3.items
  /\ lsIndex' = l3.index
  /\ idb' = l2
  /\ remote' = IF ~l2Rejects /\ toFirebase
                 THEN deleteFromFirebase(remote, collection, id, fbOk)
                 ELSE remote
  /\ syncQueue' = IF queued
                    THEN queueForSync(syncQueue, db, collection, id, Null,
                                      "delete", now)
                    ELSE syncQueue
  /\ ret' = [NoRet EXCEPT !.op = "delete", !.collection = collection, !.id = id,
               !.result = IF threw THEN "throw" ELSE "true",
               !.remote = IF l2Rejects \/ ~toFirebase THEN "none"
                          ELSE IF fbOk THEN "ok" ELSE "failed",
               !.faults = faults]
  /\ drains' = Disturb(drains)
  /\ hist' = [hist EXCEPT
               !.nFaults = @ + injected,
               !.lastWrite[k] = IF threw THEN @
                                ELSE [kind |-> "delete", rec |-> Null],
               !.noDelete = FALSE,
               !.allOffline = @ /\ queued,
               !.drained = FALSE,
               !.deleted[k] = ~threw /\ ~faults /\ toFirebase,
               !.raced[k] = Null]
  /\ UNCHANGED <<isOnline, db, firebaseInitialized, awaiting, pending, ratings,
                 division, roster, now, reads>>

Delete ==
  \E collection \in Collections, id \in Ids,
     idbOutcome \in IdbOutcomes, fbOk \in BOOLEAN :
    /\ id \in IdsOf(collection)
    /\ delete(collection, id, idbOutcome, fbOk)

(***************************************************************************)
(* get(collection, id)                                                     *)
(***************************************************************************)
get(collection, id, setItemOk, idbOutcome, putOutcome, fbOk) ==
  LET fromL3 == getFromLocalStorage(lsItems, collection, id)
      fromL2 == getFromIndexedDB(idb, db, collection, id, idbOutcome)
      l2Rejects == IdbRejects(db, idbOutcome)
      toFirebase == isOnline /\ isFirebaseAvailable
      fromL1 == getFromFirebase(remote, collection, id, fbOk)
      served == IF fromL3 # Null THEN "localStorage"
                ELSE IF l2Rejects THEN "catch"
                ELSE IF fromL2 # Null THEN "indexedDB"
                ELSE IF toFirebase /\ fromL1 # Null THEN "firebase"
                ELSE "none"
      data == CASE served = "localStorage" -> fromL3
                [] served = "indexedDB" -> fromL2
                [] served = "firebase" -> fromL1
                [] OTHER -> Null
      backfillL3 == served \in {"indexedDB", "firebase"}
      l3 == IF backfillL3
              THEN saveToLocalStorage(lsItems, lsIndex, collection, id, data, setItemOk)
              ELSE [items |-> lsItems, index |-> lsIndex]
      \* the backfill put after a remote hit; a rejected put lands in catch
      backfillRejects == served = "firebase" /\ IdbRejects(db, putOutcome)
      askedL1 == fromL3 = Null /\ ~l2Rejects /\ fromL2 = Null /\ toFirebase
      injected == Cost(~setItemOk) + Cost(idbOutcome # "ok")
                  + Cost(putOutcome # "ok") + Cost(~fbOk)
  IN
  /\ reads < MaxReads
  /\ Relevant(backfillL3, ~setItemOk)
  /\ Relevant(fromL3 = Null /\ db, idbOutcome # "ok")
  /\ Relevant(served = "firebase" /\ db, putOutcome # "ok")
  /\ Relevant(askedL1, ~fbOk)
  /\ Affordable(injected)
  /\ reads' = reads + 1
  /\ lsItems' = l3.items
  /\ lsIndex' = l3.index
  /\ idb' = IF served = "firebase"
              THEN saveToIndexedDB(idb, db, collection, id, data, putOutcome)
              ELSE idb
  /\ ret' = [NoRet EXCEPT !.op = "get", !.collection = collection, !.id = id,
               !.result = IF backfillRejects THEN "catch" ELSE served,
               !.rec = IF backfillRejects THEN Null ELSE data,
               !.remote = IF served \in {"firebase", "none"} /\ toFirebase
                            THEN (IF fbOk THEN "ok" ELSE "failed")
                            ELSE "none",
               !.faults = (backfillL3 /\ ~setItemOk)
                          \/ (fromL3 = Null /\ db /\ idbOutcome # "ok")
                          \/ (served = "firebase" /\ db /\ putOutcome # "ok")
                          \/ (served \in {"firebase", "none"} /\ toFirebase /\ ~fbOk)]
  /\ hist' = [hist EXCEPT !.nFaults = @ + injected]
  /\ UNCHANGED <<isOnline, db, firebaseInitialized, awaiting, pending, ratings,
                 division, roster, now, syncQueue, remote, drains, writes>>

Get ==
  \E collection \in Collections, id \in Ids, setItemOk \in BOOLEAN,
     idbOutcome \in IdbOutcomes, putOutcome \in IdbOutcomes, fbOk \in BOOLEAN :
    /\ id \in IdsOf(collection)
    /\ get(collection, id, setItemOk, idbOutcome, putOutcome, fbOk)

(***************************************************************************)
(* getAll(collection)                                                      *)
(***************************************************************************)
RECURSIVE BackfillL3(_, _, _, _)
BackfillL3(l3, collection, list, setItemOk) ==
  IF list = <<>> THEN l3
  ELSE BackfillL3(saveToLocalStorage(l3.items, l3.index, collection,
                                     Head(list).id, Head(list), setItemOk),
                  collection, Tail(list), setItemOk)

RECURSIVE BackfillL2(_, _, _, _)
BackfillL2(store, collection, list, putOutcome) ==
  IF list = <<>> THEN store
  ELSE BackfillL2(saveToIndexedDB(store, db, collection, Head(list).id,
                                  Head(list), putOutcome),
                  collection, Tail(list), putOutcome)

getAll(collection, setItemOk, idbOutcome, putOutcome, fbOk) ==
  LET fromL3 == getAllFromLocalStorage(lsItems, lsIndex, collection)
      fromL2 == getAllFromIndexedDB(idb, db, collection, idbOutcome)
      l2Rejects == IdbRejects(db, idbOutcome)
      toFirebase == isOnline /\ isFirebaseAvailable
      fromL1 == getAllFromFirebase(remote, collection, fbOk)
      served == IF Len(fromL3) > 0 THEN "localStorage"
                ELSE IF l2Rejects THEN "catch"
                ELSE IF Len(fromL2) > 0 THEN "indexedDB"
                ELSE IF toFirebase /\ Len(fromL1) > 0 THEN "firebase"
                ELSE "none"
      data == CASE served = "localStorage" -> fromL3
                [] served = "indexedDB" -> fromL2
                [] served = "firebase" -> fromL1
                [] OTHER -> <<>>
      l3 == IF served \in {"indexedDB", "firebase"}
              THEN BackfillL3([items |-> lsItems, index |-> lsIndex],
                              collection, data, setItemOk)
              ELSE [items |-> lsItems, index |-> lsIndex]
      askedL1 == Len(fromL3) = 0 /\ ~l2Rejects /\ Len(fromL2) = 0 /\ toFirebase
      injected == Cost(~setItemOk) + Cost(idbOutcome # "ok")
                  + Cost(putOutcome # "ok") + Cost(~fbOk)
  IN
  /\ reads < MaxReads
  /\ Relevant(served \in {"indexedDB", "firebase"}, ~setItemOk)
  /\ Relevant(Len(fromL3) = 0 /\ db, idbOutcome # "ok")
  /\ Relevant(served = "firebase" /\ db, putOutcome # "ok")
  /\ Relevant(askedL1, ~fbOk)
  /\ Affordable(injected)
  /\ reads' = reads + 1
  /\ lsItems' = l3.items
  /\ lsIndex' = l3.index
  \* the puts of the forEach callbacks are not awaited by getAll
  /\ idb' = IF served = "firebase"
              THEN BackfillL2(idb, collection, data, putOutcome)
              ELSE idb
  /\ ret' = [NoRet EXCEPT !.op = "getAll", !.collection = collection,
               !.result = served, !.list = data,
               !.remote = IF served \in {"firebase", "none"} /\ toFirebase
                            THEN (IF fbOk THEN "ok" ELSE "failed")
                            ELSE "none",
               !.faults = (served \in {"indexedDB", "firebase"} /\ ~setItemOk)
                          \/ (Len(fromL3) = 0 /\ db /\ idbOutcome # "ok")
                          \/ (served = "firebase" /\ db /\ putOutcome # "ok")
                          \/ (served \in {"firebase", "none"} /\ toFirebase /\ ~fbOk)]
  /\ hist' = [hist EXCEPT !.nFaults = @ + injected]
  /\ UNCHANGED <<isOnline, db, firebaseInitialized, awaiting, pending, ratings,
                 division, roster, now, syncQueue, remote, drains, writes>>

GetAll ==
  \E collection \in Collections, setItemOk \in BOOLEAN,
     idbOutcome \in IdbOutcomes, putOutcome \in IdbOutcomes, fbOk \in BOOLEAN :
    getAll(collection, setItemOk, idbOutcome, putOutcome, fbOk)

(***************************************************************************)
(* Connectivity events and the drain                                       *)
(***************************************************************************)
FreeDrain(d) == ~drains[d].active /\ \A e \in DrainIds : e < d => drains[e].active

\* the loop is over: showToast('Data synced successfully')
Finished(drain) ==
  IF drain.idx > Len(drain.items) THEN IdleDrain ELSE drain

\* syncPendingChanges(): returns at once without IndexedDB or Firebase;
\* otherwise store.getAll() is issued and its success handler takes the
\* entries as its items
syncPendingChanges(d) ==
  IF ~db \/ ~isFirebaseAvailable
    THEN /\ drains' = drains
         /\ hist' = hist
    ELSE LET items == queueGetAll(syncQueue)
             started == [active |-> TRUE, items |-> items, idx |-> 1,
                         clean |-> TRUE,
                         snap |-> IF AlreadyApplied(remote, items)
                                    THEN remote ELSE EmptyStore,
                         preApplied |-> AlreadyApplied(remote, items),
                         failed |-> {}]
         IN  /\ drains' = [drains EXCEPT ![d] = Finished(started)]
             /\ hist' = IF items = <<>>
                          THEN [hist EXCEPT !.drained = TRUE]
                          ELSE hist

handleOnline(d) ==
  /\ FreeDrain(d)
  /\ isOnline' = TRUE
  /\ syncPendingChanges(d)
  /\ UNCHANGED <<db, firebaseInitialized, awaiting, pending, ratings, division, roster,
                 now, lsItems, lsIndex, idb, syncQueue, remote, ret, writes,
                 reads>>

HandleOnline == \E d \in DrainIds : handleOnline(d)

HandleOffline ==
  /\ isOnline' = FALSE
  /\ UNCHANGED <<db, firebaseInitialized, awaiting, pending, ratings, division, roster,
                 now, lsItems, lsIndex, idb, syncQueue, remote, drains, ret,
                 writes, reads, hist>>

\* the visibilitychange handler of initApp; navigator.onLine is the value
\* this.isOnline follows
visibilityChange(d) ==
  /\ FreeDrain(d)
  /\ isOnline
  /\ syncPendingChanges(d)
  /\ UNCHANGED <<isOnline, db, firebaseInitialized, awaiting, pending, ratings,
                 division, roster, now, lsItems, lsIndex, idb, syncQueue, remote, ret,
                 writes, reads>>

VisibilityChange == \E d \in DrainIds : visibilityChange(d)

\* an item loop that ends the drain at the first entry that fails
drainStep_halting(d, fbOk) ==
  LET item == drains[d].items[drains[d].idx]
      stepped == [drains[d] EXCEPT
                   !.idx = IF fbOk THEN @ + 1 ELSE Len(drains[d].items) + 1,
                   !.clean = @ /\ fbOk,
                   !.failed = IF fbOk THEN @ ELSE @ \cup {KeyOf(item)}]
  IN
  /\ drains[d].active
  /\ drains[d].idx <= Len(drains[d].items)
  /\ Affordable(Cost(~fbOk))
  /\ remote' = applyItem(remote, item, fbOk)
  /\ syncQueue' = removeFromQueue(syncQueue, item, fbOk)
  /\ drains' = [e \in DrainIds |->
                 IF e = d THEN Finished(stepped) ELSE Disturb(drains)[e]]
  /\ hist' = [hist EXCEPT
               !.nFaults = @ + Cost(~fbOk),
               !.drained = stepped.idx > Len(stepped.items) /\ stepped.clean]
  /\ UNCHANGED <<isOnline, db, firebaseInitialized, awaiting, pending, ratings,
                 division, roster, now, lsItems, lsIndex, idb, ret, writes, reads>>

\* one iteration of the item loop of the success handler
drainStep(d, fbOk) ==
  LET item == drains[d].items[drains[d].idx]
      stepped == [drains[d] EXCEPT
                   !.idx = @ + 1, !.clean = @ /\ fbOk,
                   !.failed = IF fbOk THEN @ ELSE @ \cup {KeyOf(item)}]
  IN
  /\ drains[d].active
  /\ drains[d].idx <= Len(drains[d].items)
  /\ Affordable(Cost(~fbOk))
  /\ remote' = applyItem(remote, item, fbOk)
  /\ syncQueue' = removeFromQueue(syncQueue, item, fbOk)
  /\ drains' = [e \in DrainIds |->
                 IF e = d THEN Finished(stepped) ELSE Disturb(drains)[e]]
  /\ hist' = [hist EXCEPT
               !.nFaults = @ + Cost(~fbOk),
               !.drained = stepped.idx > Len(stepped.items) /\ stepped.clean]
  /\ UNCHANGED <<isOnline, db, firebaseInitialized, awaiting, pending, ratings,
                 division, roster, now, lsItems, lsIndex, idb, ret, writes, reads>>

DrainStep == \E d \in DrainIds, fbOk \in BOOLEAN : drainStep(d, fbOk)

\* the event is delivered while no drain is running
NoDrain == \A d \in DrainIds : ~drains[d].active

HandleOnlineSync == NoDrain /\ HandleOnline

VisibilityChangeSync == NoDrain /\ VisibilityChange

\* Every operation of the manager, with every failure of the tiers.  The
\* connectivity events arrive while no drain is running; the events that
\* arrive during a drain are explored by SpecOverlap.
Next ==
  \/ Save
  \/ Delete
  \/ Get
  \/ GetAll
  \/ HandleOnlineSync
  \/ HandleOffline
  \/ VisibilityChangeSync
  \/ DrainStep

Spec == Init /\ [][Next]_vars

(***************************************************************************)
(* The synchronisation engine alone: IndexedDB and Firebase are available, *)
(* the local tiers do not fail, remote operations may fail.  Reads are     *)
(* left out: get and getAll never write to Firebase or to the queue.  A    *)
(* drain is started when no other drain is running.                        *)
(***************************************************************************)
InitSync ==
  /\ Init
  /\ db
  /\ firebaseInitialized

SaveSync ==
  \E collection \in Collections, id \in Ids, timestamp \in Clock, fbOk \in BOOLEAN :
    /\ id \in IdsOf(collection)
    /\ save(collection, id, hist.saves[<<collection, id>>] + 1, timestamp,
            TRUE, "ok", fbOk)

DeleteSync ==
  \E collection \in Collections, id \in Ids, fbOk \in BOOLEAN :
    /\ id \in IdsOf(collection)
    /\ delete(collection, id, "ok", fbOk)

NextSync ==
  \/ SaveSync
  \/ DeleteSync
  \/ HandleOnlineSync
  \/ HandleOffline
  \/ VisibilityChangeSync
  \/ DrainStep

SpecSync == InitSync /\ [][NextSync]_vars

(***************************************************************************)
(* The write path alone: save and delete with every failure of the tiers, *)
(* started online or offline, and the loss of connectivity.  Reads and     *)
(* drains are left out.  Firebase is initialised: without it every write   *)
(* takes the branch of an offline write.                                   *)
(***************************************************************************)
InitWrite ==
  /\ Init
  /\ firebaseInitialized

NextWrite ==
  \/ Save
  \/ Delete
  \/ HandleOffline

SpecWrite == InitWrite /\ [][NextWrite]_vars

(***************************************************************************)
(* clearAll: after confirm(), localStorage.clear() removes every item, the *)
(* records and the index items alike; when the database is open, one       *)
(* readwrite transaction per object store issues store.clear() on groups,  *)
(* teams, players and syncQueue.  `await store.clear()` awaits an          *)
(* IDBRequest, which is not a promise, so the loop does not wait for the   *)
(* clears; they run in the order issued, before any transaction created    *)
(* later.  There is no Firebase call.  A declined confirm() does nothing.  *)
(***************************************************************************)
clearAll_keepsQueue(confirmed) ==
  /\ lsItems' = IF confirmed THEN EmptyStore ELSE lsItems
  /\ lsIndex' = IF confirmed THEN [c \in Collections |-> NullIndex] ELSE lsIndex
  /\ idb' = IF confirmed /\ db THEN EmptyStore ELSE idb
  /\ syncQueue' = syncQueue
  /\ ret' = [NoRet EXCEPT !.op = "clearAll",
               !.result = IF confirmed THEN "true" ELSE "false"]
  /\ UNCHANGED <<isOnline, db, firebaseInitialized, awaiting, pending, ratings,
                 division, roster, now, remote, drains, writes, reads, hist>>

clearAll(confirmed) ==
  /\ lsItems' = IF confirmed THEN EmptyStore ELSE lsItems
  /\ lsIndex' = IF confirmed THEN [c \in Collections |-> NullIndex] ELSE lsIndex
  /\ idb' = IF confirmed /\ db THEN EmptyStore ELSE idb
  /\ syncQueue' = IF confirmed /\ db THEN EmptyQueue ELSE syncQueue
  /\ ret' = [NoRet EXCEPT !.op = "clearAll",
               !.result = IF confirmed THEN "true" ELSE "false"]
  /\ UNCHANGED <<isOnline, db, firebaseInitialized, awaiting, pending, ratings,
                 division, roster, now, remote, drains, writes, reads, hist>>

ClearAll == \E confirmed \in BOOLEAN : clearAll(confirmed)

\* the writes that fill the tiers before a clearAll, without injected failures
SaveSound == Save /\ hist'.nFaults = hist.nFaults

DeleteSound == Delete /\ hist'.nFaults = hist.nFaults

NextClear ==
  \/ SaveSound
  \/ DeleteSound
  \/ HandleOffline
  \/ ClearAll

SpecClear == InitWrite /\ [][NextClear]_vars

(***************************************************************************)
(* The synchronisation engine under the conditions of eventual delivery:   *)
(* the online event keeps being delivered while no drain runs, and a       *)
(* running drain keeps stepping (the failures of remote operations are     *)
(* bounded, so they eventually succeed).                                   *)
(***************************************************************************)
SpecDeliver ==
  /\ InitSync
  /\ [][NextSync]_vars
  /\ WF_vars(HandleOnlineSync)
  /\ WF_vars(DrainStep)

(***************************************************************************)
(* The synchronisation engine with events that arrive at any time: an      *)
(* online event or a visibilitychange event calls syncPendingChanges       *)
(* whether or not an earlier call is still inside its item loop.           *)
(***************************************************************************)
NextOverlap ==
  \/ SaveSync
  \/ DeleteSync
  \/ HandleOnline
  \/ HandleOffline
  \/ VisibilityChange
  \/ DrainStep

SpecOverlap == InitSync /\ [][NextOverlap]_vars

(***************************************************************************)
(* A save whose ref.set(data) never settles (the page is online but the    *)
(* server does not answer).  save awaits the promise without a timeout:    *)
(* the local tiers are written, then the call stays suspended at the await *)
(* of saveToFirebase; it neither returns nor reaches queueForSync.  The    *)
(* code has no step that resumes it.                                       *)
(***************************************************************************)
saveAwaits(collection, id, payload, timestamp, setItemOk, idbOutcome) ==
  LET dataWithTimestamp == Rec(id, timestamp, payload)
      k == <<collection, id>>
      l3 == saveToLocalStorage(lsItems, lsIndex, collection, id,
                               dataWithTimestamp, setItemOk)
      l2 == saveToIndexedDB(idb, db, collection, id, dataWithTimestamp, idbOutcome)
  IN
  /\ writes < MaxWrites
  /\ isOnline /\ isFirebaseAvailable
  /\ ~IdbRejects(db, idbOutcome)
  /\ Relevant(db, idbOutcome # "ok")
  /\ Affordable(Cost(~setItemOk) + Cost(idbOutcome # "ok"))
  /\ writes' = writes + 1
  /\ lsItems' = l3.items
  /\ lsIndex' = l3.index
  /\ idb' = l2
  /\ awaiting' = awaiting + 1
  /\ hist' = [hist EXCEPT
               !.nFaults = @ + Cost(~setItemOk) + Cost(idbOutcome # "ok"),
               !.saves[k] = @ + 1,
               !.allOffline = FALSE,
               !.drained = FALSE,
               !.deleted[k] = FALSE]
  /\ now' = timestamp
  /\ UNCHANGED <<isOnline, db, firebaseInitialized, syncQueue, remote, drains,
                 ret, reads, ratings, division, roster, pending>>

SaveAwaits ==
  \E collection \in Collections, id \in Ids, timestamp \in Clock :
    /\ id \in IdsOf(collection)
    /\ saveAwaits(collection, id, hist.saves[<<collection, id>>] + 1, timestamp,
                  TRUE, "ok")

\* the event loop keeps dispatching the events and calls that are ready
NextAwait ==
  \/ SaveSync
  \/ SaveAwaits
  \/ HandleOnlineSync
  \/ HandleOffline
  \/ DrainStep

SpecAwait == InitSync /\ [][NextAwait]_vars /\ WF_vars(NextAwait)

(***************************************************************************)
(* The read path alone.  localStorage, IndexedDB and Firebase outlive the  *)
(* page: a session starts (constructor, init) on whatever earlier sessions *)
(* and other devices left in them, and the tiers are written              *)
(* independently, so a record may be held by any of them in any version.   *)
(* The index item of localStorage is never created, and IndexedDB is read  *)
(* only through an open connection.                                        *)
(***************************************************************************)
Versions(k) == {Null} \cup {Rec(k[2], t, 1) : t \in 1..MaxClock}
Holding(k, v) == [EmptyStore EXCEPT ![k] = v]

InitRead ==
  /\ isOnline \in BOOLEAN
  /\ db \in BOOLEAN
  /\ firebaseInitialized \in BOOLEAN
  /\ now = MaxClock
  /\ \E k \in Keys :
       /\ lsItems \in {Holding(k, v) : v \in Versions(k)}
       /\ idb \in {Holding(k, v) : v \in (IF db THEN Versions(k) ELSE {Null})}
       /\ remote \in {Holding(k, v) : v \in Versions(k)}
  /\ lsIndex = [c \in Collections |-> NullIndex]
  /\ syncQueue = EmptyQueue
  /\ drains = [d \in DrainIds |-> IdleDrain]
  /\ ret = NoRet
  /\ writes = 0
  /\ reads = 0
  /\ awaiting = 0
  /\ pending = NoPending
  /\ ratings = NoRatings
  /\ division = NoDivision
  /\ roster = NoRoster
  /\ hist = InitHist

NextRead == Get

SpecRead == InitRead /\ [][NextRead]_vars

(***************************************************************************)
(* save and get at their suspension points.  A call runs up to its first   *)
(* await and its continuation runs as a later task, so that the other call *)
(* may begin or resume in between.  IndexedDB runs the transactions on an  *)
(* object store in the order of their creation: a request sees the writes  *)
(* issued before it and none issued after it, and the requests on a store  *)
(* complete in that order (as do the promises that resolve at once when    *)
(* this.db is null).  idb therefore takes a put when it is issued.  The    *)
(* tiers do not fail here.  The session starts on the tiers an earlier     *)
(* session left, with a record stamped no later than the session's clock.  *)
(***************************************************************************)
InitInterleave ==
  /\ isOnline \in BOOLEAN
  /\ db \in BOOLEAN
  /\ firebaseInitialized \in BOOLEAN
  /\ now = 1
  /\ \E k \in Keys :
       LET left == {Null, Rec(k[2], 1, 1)}
       IN  /\ lsItems \in {Holding(k, v) : v \in left}
           /\ idb \in {Holding(k, v) : v \in (IF db THEN left ELSE {Null})}
           /\ remote \in {Holding(k, v) : v \in left}
  /\ lsIndex = [c \in Collections |-> NullIndex]
  /\ syncQueue = EmptyQueue
  /\ drains = [d \in DrainIds |-> IdleDrain]
  /\ ret = NoRet
  /\ writes = 0
  /\ reads = 0
  /\ awaiting = 0
  /\ pending = NoPending
  /\ ratings = NoRatings
  /\ division = NoDivision
  /\ roster = NoRoster
  /\ hist = InitHist

\* the request of a call is queued behind the outstanding request of other
Behind(other, collection) ==
  other.pc = "indexedDB" /\ (~db \/ other.collection = collection)

\* save up to `await this.saveToIndexedDB(...)`
saveBegin(collection, id, payload, timestamp) ==
  LET dataWithTimestamp == Rec(id, timestamp, payload)
      k == <<collection, id>>
      l3 == saveToLocalStorage(lsItems, lsIndex, collection, id,
                               dataWithTimestamp, TRUE)
  IN
  /\ writes < MaxWrites
  /\ pending.save.pc = "idle"
  /\ writes' = writes + 1
  /\ lsItems' = l3.items
  /\ lsIndex' = l3.index
  /\ idb' = saveToIndexedDB(idb, db, collection, id, dataWithTimestamp, "ok")
  /\ pending' = [pending EXCEPT
                  !.save = [pc |-> "indexedDB", collection |-> collection,
                            id |-> id, data |-> dataWithTimestamp,
                            behind |-> Behind(pending.get, collection)]]
  /\ hist' = [hist EXCEPT
               !.lastWrite[k] = [kind |-> "save", rec |-> dataWithTimestamp],
               !.saves[k] = @ + 1]
  /\ now' = timestamp
  /\ UNCHANGED <<isOnline, db, firebaseInitialized, syncQueue, remote, drains,
                 ret, reads, awaiting, ratings, division, roster>>

SaveBegin ==
  \E collection \in Collections, id \in Ids, timestamp \in Clock :
    /\ id \in IdsOf(collection)
    /\ saveBegin(collection, id, hist.saves[<<collection, id>>] + 1, timestamp)

\* save from the Firebase branch to its return
SaveResume ==
  LET call == pending.save
      toFirebase == isOnline /\ isFirebaseAvailable
  IN
  /\ call.pc = "indexedDB"
  /\ ~call.behind
  /\ remote' = IF toFirebase
                 THEN saveToFirebase(remote, call.collection, call.id,
                                     call.data, TRUE)
                 ELSE remote
  /\ syncQueue' = IF toFirebase THEN syncQueue
                    ELSE queueForSync(syncQueue, db, call.collection, call.id,
                                      call.data, "save", now)
  /\ ret' = [NoRet EXCEPT !.op = "save", !.collection = call.collection,
               !.id = call.id, !.result = "true", !.rec = call.data,
               !.remote = IF toFirebase THEN "ok" ELSE "none"]
  /\ pending' = [pending EXCEPT !.save = NoCall, !.get.behind = FALSE]
  /\ hist' = [hist EXCEPT !.allOffline = @ /\ ~toFirebase, !.drained = FALSE]
  /\ UNCHANGED <<isOnline, db, firebaseInitialized, now, lsItems, lsIndex, idb,
                 drains, writes, reads, awaiting, ratings, division, roster>>

\* get up to `await this.getFromIndexedDB(...)`, or to its return on a
\* localStorage hit
getBegin(collection, id) ==
  LET fromL3 == getFromLocalStorage(lsItems, collection, id)
  IN
  /\ reads < MaxReads
  /\ pending.get.pc = "idle"
  /\ reads' = reads + 1
  /\ IF fromL3 # Null
       THEN /\ ret' = [NoRet EXCEPT !.op = "get", !.collection = collection,
                         !.id = id, !.result = "localStorage", !.rec = fromL3]
            /\ pending' = pending
       ELSE /\ ret' = ret
            /\ pending' = [pending EXCEPT
                            !.get = [pc |-> "indexedDB",
                                     collection |-> collection, id |-> id,
                                     data |-> getFromIndexedDB(idb, db, collection,
                                                               id, "ok"),
                                     behind |-> Behind(pending.save, collection)]]
  /\ UNCHANGED <<isOnline, db, firebaseInitialized, now, lsItems, lsIndex, idb,
                 syncQueue, remote, drains, writes, awaiting, ratings, division, roster,
                 hist>>

GetBegin ==
  \E collection \in Collections, id \in Ids :
    /\ id \in IdsOf(collection)
    /\ getBegin(collection, id)

\* get after getFromIndexedDB: on a hit the record read is written back to
\* localStorage and returned; otherwise Firebase is asked when it is
\* reachable
GetResumeIndexedDB ==
  LET call == pending.get
      toFirebase == isOnline /\ isFirebaseAvailable
      l3 == saveToLocalStorage(lsItems, lsIndex, call.collection, call.id,
                               call.data, TRUE)
  IN
  /\ call.pc = "indexedDB"
  /\ ~call.behind
  /\ IF call.data # Null
       THEN /\ lsItems' = l3.items
            /\ lsIndex' = l3.index
            /\ ret' = [NoRet EXCEPT !.op = "get", !.collection = call.collection,
                         !.id = call.id, !.result = "indexedDB",
                         !.rec = call.data]
            /\ pending' = [pending EXCEPT !.get = NoCall, !.save.behind = FALSE]
       ELSE /\ UNCHANGED <<lsItems, lsIndex, roster>>
            /\ IF toFirebase
                 THEN /\ ret' = ret
                      /\ pending' = [pending EXCEPT !.get.pc = "firebase",
                                                    !.save.behind = FALSE]
                 ELSE /\ ret' = [NoRet EXCEPT !.op = "get",
                                   !.collection = call.collection,
                                   !.id = call.id]
                      /\ pending' = [pending EXCEPT !.get = NoCall,
                                                    !.save.behind = FALSE]
  /\ UNCHANGED <<isOnline, db, firebaseInitialized, now, idb, syncQueue, remote,
                 drains, writes, reads, awaiting, ratings, division, roster, hist>>

\* get after getFromFirebase: on a hit the record read is written to
\* localStorage and put into IndexedDB, then returned
GetResumeFirebase ==
  LET call == pending.get
      data == getFromFirebase(remote, call.collection, call.id, TRUE)
      l3 == saveToLocalStorage(lsItems, lsIndex, call.collection, call.id,
                               data, TRUE)
  IN
  /\ call.pc = "firebase"
  /\ IF data # Null
       THEN /\ lsItems' = l3.items
            /\ lsIndex' = l3.index
            /\ idb' = saveToIndexedDB(idb, db, call.collection, call.id, data,
                                      "ok")
            /\ ret' = [NoRet EXCEPT !.op = "get", !.collection = call.collection,
                         !.id = call.id, !.result = "firebase", !.rec = data,
                         !.remote = "ok"]
       ELSE /\ UNCHANGED <<lsItems, lsIndex, idb, roster>>
            /\ ret' = [NoRet EXCEPT !.op = "get", !.collection = call.collection,
                         !.id = call.id, !.remote = "ok"]
  /\ pending' = [pending EXCEPT !.get = NoCall]
  /\ UNCHANGED <<isOnline, db, firebaseInitialized, now, syncQueue, remote,
                 drains, writes, reads, awaiting, ratings, division, roster, hist>>

NextInterleave ==
  \/ SaveBegin
  \/ SaveResume
  \/ GetBegin
  \/ GetResumeIndexedDB
  \/ GetResumeFirebase
  \/ HandleOffline

SpecInterleave == InitInterleave /\ [][NextInterleave]_vars

(***************************************************************************)
(* Player ratings.  RatingsCalculator (src/js/ratings.js) takes the 0-100  *)
(* slider values and weights them; its totals are fractions of a point and *)
(* are kept here in hundredths of a point, the returned baseTotal and      *)
(* capBreakerTotal (rounded to one decimal place) in tenths.  Ratings      *)
(* (src/unnamed/part_001) clamps each value to the limits of its stat and  *)
(* adds whole points.                                                      *)
(***************************************************************************)
MAX_BASE_TOTAL == 100
MAX_CAP_BREAKER_TOTAL == 9
MAX_OVERALL == 109

BaseKeys == {"face", "eyes", "hair", "top", "bottom", "fitness", "history",
             "personality", "tolerance", "substances"}
CapKeys == {"athletic", "height", "attractiveness", "intoYou", "comfort"}

TIER_THRESHOLDS ==
  << [name |-> "Dark Matter", min |-> 99], [name |-> "Galaxy Opal", min |-> 95],
     [name |-> "Pink Diamond", min |-> 90], [name |-> "Diamond", min |-> 86],
     [name |-> "Amethyst", min |-> 84], [name |-> "Ruby", min |-> 82],
     [name |-> "Sapphire", min |-> 79], [name |-> "Emerald", min |-> 76],
     [name |-> "Gold", min |-> 73], [name |-> "Silver", min |-> 70],
     [name |-> "Bronze", min |-> 0] >>

getBaseWeights ==
  [face |-> 15, eyes |-> 5, hair |-> 5, top |-> 5, bottom |-> 5, fitness |-> 15,
   history |-> 10, personality |-> 20, tolerance |-> 10, substances |-> 10]

getCapBreakerWeights ==
  [athletic |-> 2, height |-> 1, attractiveness |-> 2, intoYou |-> 1,
   comfort |-> 3]

Min(a, b) == IF a <= b THEN a ELSE b
Max(a, b) == IF a >= b THEN a ELSE b

RECURSIVE Sum(_, _)
Sum(f, S) ==
  IF S = {} THEN 0
  ELSE LET k == CHOOSE x \in S : TRUE IN f[k] + Sum(f, S \ {k})

\* (sliderValue / 100) * maxWeight, in hundredths of a point
convertToWeighted(sliderValue, maxWeight) == sliderValue * maxWeight

\* Math.round of a value given in hundredths
Round(hundredths) == (hundredths + 50) \div 100

\* Math.round(x * 10) / 10 of a value given in hundredths, in tenths
RoundToTenth(hundredths) == (hundredths + 5) \div 10

calculateBaseTotal(stats) ==
  Min(Sum([k \in BaseKeys |-> convertToWeighted(stats[k], getBaseWeights[k])],
          BaseKeys),
      MAX_BASE_TOTAL * 100)

calculateCapBreakerTotal(capBreakers) ==
  Min(Sum([k \in CapKeys |->
             convertToWeighted(capBreakers[k], getCapBreakerWeights[k])],
          CapKeys),
      MAX_CAP_BREAKER_TOTAL * 100)

RECURSIVE TierFrom(_, _)
TierFrom(overall, n) ==
  IF n > Len(TIER_THRESHOLDS) THEN TIER_THRESHOLDS[Len(TIER_THRESHOLDS)]
  ELSE IF overall >= TIER_THRESHOLDS[n].min THEN TIER_THRESHOLDS[n]
  ELSE TierFrom(overall, n + 1)

getTier(overall) == TierFrom(overall, 1)

calculatePlayerRatings(stats, capBreakers) ==
  LET baseTotal == calculateBaseTotal(stats)
      capBreakerTotal == calculateCapBreakerTotal(capBreakers)
      overall == Min(Round(baseTotal + capBreakerTotal), MAX_OVERALL)
  IN  [baseTotal |-> RoundToTenth(baseTotal),
       capBreakerTotal |-> RoundToTenth(capBreakerTotal),
       overall |-> overall,
       tier |-> getTier(overall).name]

BASE_STATS ==
  [face |-> [min |-> 0, max |-> 15], eyes |-> [min |-> 0, max |-> 5],
   hair |-> [min |-> 0, max |-> 5], top |-> [min |-> 0, max |-> 5],
   bottom |-> [min |-> 0, max |-> 5], fitness |-> [min |-> 0, max |-> 15],
   history |-> [min |-> 0, max |-> 10], personality |-> [min |-> 0, max |-> 20],
   tolerance |-> [min |-> 0, max |-> 10], substances |-> [min |-> 0, max |-> 10]]

CAP_BREAKERS ==
  [athletic |-> [min |-> 0, max |-> 2], height |-> [min |-> 0, max |-> 1],
   attractiveness |-> [min |-> 0, max |-> 2], intoYou |-> [min |-> 0, max |-> 1],
   comfort |-> [min |-> 0, max |-> 2]]

Clamp(value, limits) == Max(limits.min, Min(limits.max, value))

Ratings_calculateBaseTotal(stats) ==
  Sum([k \in BaseKeys |-> Clamp(stats[k], BASE_STATS[k])], BaseKeys)

Ratings_calculateCapBreakerTotal(capBreakers) ==
  Sum([k \in CapKeys |-> Clamp(capBreakers[k], CAP_BREAKERS[k])], CapKeys)

Ratings_calculateOverall(baseTotal, capBreakerTotal) ==
  baseTotal + capBreakerTotal

Ratings_calculatePlayerRatings(stats, capBreakers) ==
  LET baseTotal == Ratings_calculateBaseTotal(stats)
      capBreakerTotal == Ratings_calculateCapBreakerTotal(capBreakers)
      overall == Ratings_calculateOverall(baseTotal, capBreakerTotal)
  IN  [baseTotal |-> baseTotal, capBreakerTotal |-> capBreakerTotal,
       overall |-> overall, tier |-> getTier(overall).name]

\* the values of the inputs: one slider value for all the stats but one
SliderValues == {0, 50, 100}
Sliders(keys) ==
  {[k \in keys |-> IF k = other THEN b ELSE a] :
     a \in SliderValues, b \in SliderValues, other \in keys}

InitRatings ==
  /\ isOnline = TRUE
  /\ db = TRUE
  /\ firebaseInitialized = TRUE
  /\ now = 1
  /\ lsItems = EmptyStore
  /\ lsIndex = [c \in Collections |-> NullIndex]
  /\ idb = EmptyStore
  /\ syncQueue = EmptyQueue
  /\ remote = EmptyStore
  /\ drains = [d \in DrainIds |-> IdleDrain]
  /\ ret = NoRet
  /\ writes = 0
  /\ reads = 0
  /\ awaiting = 0
  /\ pending = NoPending
  /\ ratings \in {[NoRatings EXCEPT !.stats = s, !.capBreakers = c] :
                    s \in Sliders(BaseKeys), c \in Sliders(CapKeys)}
  /\ division = NoDivision
  /\ roster = NoRoster
  /\ hist = InitHist

CalculatePlayerRatings ==
  /\ ratings.calculator = <<>>
  /\ ratings' = [ratings EXCEPT !.calculator =
                   calculatePlayerRatings(ratings.stats, ratings.capBreakers)]
  /\ UNCHANGED <<isOnline, db, firebaseInitialized, now, lsItems, lsIndex, idb,
                 syncQueue, remote, drains, ret, writes, reads, awaiting,
                 pending, division, roster, hist>>

RatingsCalculatePlayerRatings ==
  /\ ratings.legacy = <<>>
  /\ ratings' = [ratings EXCEPT !.legacy =
                   Ratings_calculatePlayerRatings(ratings.stats,
                                                  ratings.capBreakers)]
  /\ UNCHANGED <<isOnline, db, firebaseInitialized, now, lsItems, lsIndex, idb,
                 syncQueue, remote, drains, ret, writes, reads, awaiting,
                 pending, division, roster, hist>>

NextRatings ==
  \/ CalculatePlayerRatings
  \/ RatingsCalculatePlayerRatings

SpecRatings == InitRatings /\ [][NextRatings]_vars

(***************************************************************************)
(* Divisions (src/js/divisions.js).  calculateTeamDivision reads the       *)
(* team's players (getTeamPlayers, ordered by overall) and its roster      *)
(* (getTeamRoster: the first five players are the starters, the rest the   *)
(* bench).  A player is given by its isBody flag.  What the calls into     *)
(* DBManager hand back is an input here: team is whether get('teams', id)  *)
(* found the record, saved whether the save of the team record with its    *)
(* new roster returned (a throw lands in getTeamRoster's catch).           *)
(***************************************************************************)
getTeamRoster(players, team, saved) ==
  IF ~team \/ ~saved
    THEN [starters |-> <<>>, bench |-> <<>>]
    ELSE [starters |-> SubSeq(players, 1, Min(5, Len(players))),
          bench |-> SubSeq(players, 6, Len(players))]

calculateTeamDivision(players, team, saved) ==
  LET totalPlayers == Len(players)
      bodyCount == Cardinality({n \in 1..Len(players) : players[n]})
      startersCount == Len(getTeamRoster(players, team, saved).starters)
  IN  IF startersCount >= 5 /\ bodyCount >= 1 THEN "D1"
      ELSE IF totalPlayers >= 1 /\ bodyCount >= 1 THEN "D2"
      ELSE IF totalPlayers >= 1 THEN "D3"
      ELSE "NAIA"

Rosters == UNION {[1..n -> BOOLEAN] : n \in 0..MaxPlayers}

InitDivision ==
  /\ isOnline = TRUE
  /\ db = TRUE
  /\ firebaseInitialized = TRUE
  /\ now = 1
  /\ lsItems = EmptyStore
  /\ lsIndex = [c \in Collections |-> NullIndex]
  /\ idb = EmptyStore
  /\ syncQueue = EmptyQueue
  /\ remote = EmptyStore
  /\ drains = [d \in DrainIds |-> IdleDrain]
  /\ ret = NoRet
  /\ writes = 0
  /\ reads = 0
  /\ awaiting = 0
  /\ pending = NoPending
  /\ ratings = NoRatings
  /\ division \in {[NoDivision EXCEPT !.players = p, !.team = t, !.saved = t /\ w] :
                     p \in Rosters, t \in BOOLEAN, w \in BOOLEAN}
  /\ roster = NoRoster
  /\ hist = InitHist

CalculateTeamDivision ==
  /\ division.result = "none"
  /\ division' = [division EXCEPT !.result =
                    calculateTeamDivision(division.players, division.team,
                                          division.saved)]
  /\ UNCHANGED <<isOnline, db, firebaseInitialized, now, lsItems, lsIndex, idb,
                 syncQueue, remote, drains, ret, writes, reads, awaiting,
                 pending, ratings, hist, roster>>

NextDivision == CalculateTeamDivision

SpecDivision == InitDivision /\ [][NextDivision]_vars

(***************************************************************************)
(* Teams (src/unnamed/part_005): the roster of one team.  addPlayer and    *)
(* removePlayer read the team record with DBManager.get, which returns a   *)
(* copy parsed from a tier (or null: "Team not found"), change the copy    *)
(* and hand it to DBManager.save; movePlayer is a call of addPlayer.  An   *)
(* exception thrown between the read and the save discards the copy.       *)
(* The bench has no limit in the code: calls that would make it longer     *)
(* than MaxBench are not issued.                                           *)
(***************************************************************************)
PlayerIds == 1..MaxPlayers

Positions == {"starters", "bench"}

\* list.filter(id => id !== playerId)
Without(list, playerId) == SelectSeq(list, LAMBDA id : id # playerId)

\* the team copy after the body of addPlayer, and whether the body threw
addPlayer_unchecked(team, playerId, position) ==
  LET starters == Without(team.starters, playerId)
      bench == Without(team.bench, playerId)
  IN  IF position = "starters"
        THEN [threw |-> FALSE,
              team |-> [starters |-> Append(starters, playerId), bench |-> bench]]
        ELSE [threw |-> FALSE,
              team |-> [starters |-> starters, bench |-> Append(bench, playerId)]]

addPlayer(team, playerId, position) ==
  LET starters == Without(team.starters, playerId)
      bench == Without(team.bench, playerId)
  IN  IF position = "starters"
        THEN IF Len(starters) >= 5
               THEN [threw |-> TRUE,
                     team |-> [starters |-> starters, bench |-> bench]]
               ELSE [threw |-> FALSE,
                     team |-> [starters |-> Append(starters, playerId),
                               bench |-> bench]]
        ELSE [threw |-> FALSE,
              team |-> [starters |-> starters, bench |-> Append(bench, playerId)]]

removePlayer(team, playerId) ==
  [starters |-> Without(team.starters, playerId),
   bench |-> Without(team.bench, playerId)]

movePlayer(team, playerId, newPosition) == addPlayer(team, playerId, newPosition)

TeamsCall(op, found, threw, team) ==
  /\ roster' = IF found /\ ~threw THEN team ELSE roster
  /\ ret' = [NoRet EXCEPT !.op = op,
               !.result = IF ~found THEN "Team not found"
                          ELSE IF threw THEN "Starting lineup is full"
                          ELSE "true"]
  /\ UNCHANGED <<isOnline, db, firebaseInitialized, now, lsItems, lsIndex, idb,
                 syncQueue, remote, drains, writes, reads, awaiting, pending,
                 ratings, division, hist>>

AddPlayer ==
  \/ TeamsCall("addPlayer", FALSE, FALSE, roster)
  \/ \E playerId \in PlayerIds, position \in Positions :
       LET r == addPlayer(roster, playerId, position)
       IN  /\ Len(r.team.bench) <= MaxBench
           /\ TeamsCall("addPlayer", TRUE, r.threw, r.team)

RemovePlayer ==
  \/ TeamsCall("removePlayer", FALSE, FALSE, roster)
  \/ \E playerId \in PlayerIds :
       TeamsCall("removePlayer", TRUE, FALSE, removePlayer(roster, playerId))

MovePlayer ==
  \/ TeamsCall("movePlayer", FALSE, FALSE, roster)
  \/ \E playerId \in PlayerIds, newPosition \in Positions :
       LET r == movePlayer(roster, playerId, newPosition)
       IN  /\ Len(r.team.bench) <= MaxBench
           /\ TeamsCall("movePlayer", TRUE, r.threw, r.team)

NextTeams ==
  \/ AddPlayer
  \/ RemovePlayer
  \/ MovePlayer

\* the team exists with the roster of Teams.create; the tiers play no part
InitTeams ==
  /\ Init
  /\ isOnline /\ db /\ firebaseInitialized

SpecTeams == InitTeams /\ [][NextTeams]_vars

(***************************************************************************)
(* Properties                                                              *)
(***************************************************************************)
HasSaveEntry(queue, call) ==
  \E i \in Ids :
    /\ queue[i].operation = "save"
    /\ queue[i].collection = call.collection
    /\ queue[i].id = call.id
    /\ queue[i].data = call.rec

SavedKeys == {k \in Keys : hist.lastWrite[k].kind = "save"}
DeletedKeys == {k \in Keys : hist.lastWrite[k].kind = "delete"}

\* every write of the run was a save that took the queue path
OnlyOfflineSaves == hist.allOffline /\ hist.noDelete

\* C1: after saves issued while the Remote Store was unreachable, once
\* connectivity is restored and a drain has completed with every remote
\* operation succeeding, the Remote Store holds, for each written key, the
\* record of the last save issued for that key.
C1_LastOfflineSaveReachesRemote ==
  (db /\ OnlyOfflineSaves /\ hist.drained)
    => \A k \in SavedKeys : remote[k] = hist.lastWrite[k].rec

\* C2: whenever save returns successfully without the Remote Store having
\* applied the write, a 'save' entry for that record with the stamped
\* payload is in the syncQueue store at the moment save returns (stated
\* for an open IndexedDB connection, where a queue exists).
C2_AcceptedWriteIsQueued ==
  [][(db /\ writes' = writes + 1 /\ ret'.op = "save" /\ ret'.result = "true"
        /\ ret'.remote # "ok")
       => HasSaveEntry(syncQueue', ret')]_vars

\* C3: a save issued while online whose Firebase write fails enqueues a
\* 'save' entry for the write and completes successfully (stated for an
\* open IndexedDB connection, where a queue exists).
C3_OnlineFailureIsQueued ==
  [][(db /\ writes' = writes + 1 /\ ret'.op = "save" /\ ret'.remote = "failed")
       => (ret'.result = "true" /\ HasSaveEntry(syncQueue', ret'))]_vars

\* C4 (Scenario A): after exactly one save, issued offline with the durable
\* store open, the queue holds exactly one entry, for that record, and the
\* Remote Store was not written; once a drain has then completed with every
\* remote operation succeeding, the queue is empty and the Remote Store
\* holds the record.
C4_ScenarioA ==
  (db /\ OnlyOfflineSaves /\ writes = 1)
    => \A k \in SavedKeys :
         IF hist.drained
           THEN syncQueue = EmptyQueue /\ remote[k] = hist.lastWrite[k].rec
           ELSE /\ \A i \in Ids : syncQueue[i] # NoEntry <=> i = k[2]
                /\ syncQueue[k[2]].data = hist.lastWrite[k].rec
                /\ (\A d \in DrainIds : ~drains[d].active) => remote[k] = Null

\* C5 (Scenario C): when every write of the run was issued offline and the
\* last write of a key is a delete, the delete is queued as a 'delete' entry
\* and, once a drain has completed successfully, the Remote Store has no
\* record at that key.
C5_ScenarioC ==
  (db /\ hist.allOffline)
    => \A k \in DeletedKeys :
         /\ \E i \in Ids : /\ syncQueue[i].operation = "delete"
                           /\ KeyOf(syncQueue[i]) = k
         /\ hist.drained => remote[k] = Null

\* C6: a get that immediately follows a successful save of the same record
\* (and meets no failure of its own) returns a record whose updatedAt is at
\* least the updatedAt stamped by that save, whatever tier-level write
\* failure that save swallowed (stated for an open IndexedDB connection).
C6_ReadYourWrite ==
  [][(db /\ reads' = reads + 1 /\ ret'.op = "get" /\ ~ret'.faults
        /\ ret.op = "save" /\ ret.result = "true"
        /\ ret'.collection = ret.collection /\ ret'.id = ret.id)
       => (ret'.rec # Null /\ ret'.rec.updatedAt >= ret.rec.updatedAt)]_vars

\* C7: once a delete of a record has completed on all three tiers, the
\* record stays absent from localStorage, IndexedDB and Firebase until a
\* save of that record is issued.
C7_DeletedStaysDeleted ==
  \A k \in Keys :
    hist.deleted[k] => lsItems[k] = Null /\ idb[k] = Null /\ remote[k] = Null

\* a step of drain d after which the drain is still undisturbed and has met
\* no failure
CleanStep(d) ==
  /\ drains[d].active
  /\ drains[d].clean
  /\ IF drains'[d].active
       THEN drains'[d].clean /\ drains'[d].idx = drains[d].idx + 1
       ELSE hist'.drained

\* C8: a drain that starts when every queue entry is already applied to the
\* Remote Store leaves the Remote Store, after each of its steps and at its
\* end, as it was when the drain started.
C8_RedrainIdempotent ==
  [][\A d \in DrainIds :
       (drains[d].preApplied /\ CleanStep(d)) => remote' = drains[d].snap]_vars

\* a drain over already applied entries is past its first entry
C8_Witness ==
  \E d \in DrainIds :
    /\ drains[d].active /\ drains[d].preApplied /\ drains[d].clean
    /\ drains[d].idx > 1
    /\ remote = drains[d].snap
    /\ \E k \in Keys : remote[k] # Null

\* last-write-wins between the durable and the remote version of a record,
\* the remote version on a tie
Newer(local, remoteRec) ==
  IF remoteRec.updatedAt >= local.updatedAt THEN remoteRec ELSE local

\* C9: an online getAll returns, for every id held by both IndexedDB and
\* Firebase, the version with the greater updatedAt, and afterwards
\* localStorage and IndexedDB hold that version (stated for the ids whose
\* two versions differ in updatedAt; on a tie the claim picks the remote
\* version).
C9_GetAllMerges ==
  [][(reads' = reads + 1 /\ ret'.op = "getAll" /\ ~ret'.faults
        /\ isOnline /\ isFirebaseAvailable /\ db)
       => \A i \in IdsOf(ret'.collection) :
            LET k == <<ret'.collection, i>>
            IN  (idb[k] # Null /\ remote[k] # Null
                   /\ idb[k].updatedAt # remote[k].updatedAt)
                  => /\ Contains(ret'.list, Newer(idb[k], remote[k]))
                     /\ lsItems'[k] = Newer(idb[k], remote[k])
                     /\ idb'[k] = Newer(idb[k], remote[k])]_vars

Present(k) == idb[k] # Null \/ (isOnline /\ isFirebaseAvailable /\ remote[k] # Null)

\* C10: getAll returns exactly one record for every id present in
\* IndexedDB or, when online, in Firebase, and none for any other id; the
\* records found only in Firebase are afterwards in both local tiers.
C10_GetAllComplete ==
  [][(reads' = reads + 1 /\ ret'.op = "getAll" /\ ~ret'.faults /\ db)
       => \A i \in IdsOf(ret'.collection) :
            LET k == <<ret'.collection, i>>
                hits == {n \in 1..Len(ret'.list) : ret'.list[n].id = i}
            IN  /\ Cardinality(hits) = (IF Present(k) THEN 1 ELSE 0)
                /\ (idb[k] = Null /\ Present(k))
                      => (lsItems'[k] # Null /\ idb'[k] # Null)]_vars

\* the record of the first tier that holds it: localStorage, then IndexedDB,
\* then Firebase if it is reachable
FirstHolder(k) ==
  IF lsItems[k] # Null THEN lsItems[k]
  ELSE IF idb[k] # Null THEN idb[k]
  ELSE IF isOnline /\ isFirebaseAvailable THEN remote[k]
  ELSE Null

\* C11: a get that meets no tier failure returns the record of the first
\* tier that holds it, trying localStorage, then IndexedDB, then (only when
\* online with Firebase available) Firebase, and returns null exactly when
\* none of these tiers holds the record.
C11_ReadProtocol ==
  [][(reads' = reads + 1 /\ ret'.op = "get" /\ ~ret'.faults)
       => ret'.rec = FirstHolder(<<ret'.collection, ret'.id>>)]_vars

\* a get was served by IndexedDB although Firebase holds another version
C11_Witness ==
  /\ ret.op = "get" /\ ~ret.faults /\ ret.result = "indexedDB"
  /\ ret.rec # Null
  /\ remote[<<ret.collection, ret.id>>] \notin {Null, ret.rec}

\* C12: a save that completes returns the stamped record (the record written
\* to the tiers, with updatedAt set to the time of the save) to its caller.
C12_SaveReturnsRecord ==
  [][(writes' = writes + 1 /\ ret'.op = "save" /\ ret'.result # "throw")
       => ret'.result = "record"]_vars

\* the record of the save that just returned is held by no tier and by no
\* queue entry
HeldNowhere ==
  LET k == <<ret'.collection, ret'.id>>
  IN  /\ lsItems'[k] # ret'.rec
      /\ idb'[k] # ret'.rec
      /\ remote'[k] # ret'.rec
      /\ ~HasSaveEntry(syncQueue', ret')

\* C13: a save issued while Firebase is unreachable whose localStorage write
\* and IndexedDB write both fail (or IndexedDB is unavailable), so that no
\* tier and no queue entry holds the record, surfaces a failure to its
\* caller instead of reporting success.
C13_HardFailureReported ==
  [][(writes' = writes + 1 /\ ret'.op = "save"
        /\ ~(isOnline /\ isFirebaseAvailable) /\ HeldNowhere)
       => ret'.result = "throw"]_vars

\* C14: a get whose IndexedDB read fails (the request errors or cannot be
\* created) treats that tier as empty and still tries Firebase: when the
\* record is absent from localStorage and present in Firebase, which is
\* reachable and answers, the get returns a record and not null.
C14_ReadFailureFallsThrough ==
  [][\A collection \in Collections, id \in Ids, setItemOk \in BOOLEAN,
        idbOutcome \in IdbOutcomes \ {"ok"} :
       (/\ id \in IdsOf(collection)
        /\ lsItems[<<collection, id>>] = Null
        /\ remote[<<collection, id>>] # Null
        /\ isOnline /\ isFirebaseAvailable
        /\ get(collection, id, setItemOk, idbOutcome, "ok", TRUE))
       => ret'.rec # Null]_vars

\* C15: every call eventually returns, even when a Firebase operation never
\* completes: a save suspended at its Firebase write is resumed (by a
\* timeout that treats it as a network failure and queues the write).
C15_NoCallBlocksForever == (awaiting > 0) ~> (awaiting = 0)

\* the last call was a save of record r at key k that returned successfully
\* without attempting the Firebase write (Firebase was unreachable)
IssuedOffline(k, r) ==
  /\ ret.op = "save" /\ ret.result = "true" /\ ret.remote = "none"
  /\ ret.collection = k[1] /\ ret.rec = r

\* C16: every save issued while Firebase was unreachable is eventually
\* applied to Firebase, provided connectivity is restored and the remote
\* operations of the drains eventually succeed.
C16_AtLeastOnceDelivery ==
  \A k \in Keys, t \in 1..MaxClock, p \in 1..MaxWrites :
    IssuedOffline(k, Rec(k[2], t, p)) ~> (remote[k] = Rec(k[2], t, p))

\* C17: for all stat and cap-breaker inputs calculatePlayerRatings yields
\* baseTotal in 0..100, capBreakerTotal in 0..8 and
\* overall = baseTotal + capBreakerTotal in 0..108 (RatingsCalculator's
\* baseTotal and capBreakerTotal are in tenths of a point and its overall is
\* rounded, so the sum is stated for the whole points of Ratings).
C17_RatingBounds ==
  /\ ratings.calculator # <<>> =>
       /\ ratings.calculator.baseTotal \in 0..(100 * 10)
       /\ ratings.calculator.capBreakerTotal \in 0..(8 * 10)
       /\ ratings.calculator.overall \in 0..108
  /\ ratings.legacy # <<>> =>
       /\ ratings.legacy.baseTotal \in 0..100
       /\ ratings.legacy.capBreakerTotal \in 0..8
       /\ ratings.legacy.overall \in 0..108
       /\ ratings.legacy.overall
            = ratings.legacy.baseTotal + ratings.legacy.capBreakerTotal

\* C18: calculateTeamDivision returns D1 exactly for a team with a full
\* starting five plus at least one bench player (six players or more),
\* NAIA exactly for a team with zero players, and D2 or D3 for every other
\* team with at least one player (stated for a team whose record exists
\* and whose roster was saved).
C18_DivisionClassification ==
  (division.result # "none" /\ division.team /\ division.saved)
    => /\ division.result = "D1" <=> Len(division.players) >= 6
       /\ division.result = "NAIA" <=> Len(division.players) = 0
       /\ division.result \in {"D1", "D2", "D3", "NAIA"}

\* C19: when the remote operation of a queue entry processed by a drain
\* succeeds, the entry is removed from the syncQueue store; when it fails,
\* the entry is left in place.
C19_DrainBookkeeping ==
  [][\A d \in DrainIds :
       /\ (drains[d].active /\ drainStep(d, TRUE))
            => syncQueue'[drains[d].items[drains[d].idx].id] = NoEntry
       /\ (drains[d].active /\ drainStep(d, FALSE))
            => syncQueue' = syncQueue]_vars

\* C20: at most one execution of syncPendingChanges is in flight at any
\* time, whatever the arrival order of online and visibilitychange events.
C20_DrainsMutuallyExclusive ==
  Cardinality({d \in DrainIds : drains[d].active}) <= 1

\* C21: a drain attempts the queue entries in ascending enqueue order: of
\* two entries of its item list, the one attempted first was not enqueued
\* after the other.
C21_DrainOrder ==
  \A d \in DrainIds :
    drains[d].active
      => \A n, m \in 1..Len(drains[d].items) :
           n < m => drains[d].items[n].timestamp <= drains[d].items[m].timestamp

C23_DirectWriteWinsOverDrain ==
  \A k \in Keys :
    (hist.raced[k] # Null /\ NoDrain)
      => (remote[k] # Null /\ remote[k].updatedAt >= hist.raced[k].updatedAt)

\* C24: under every interleaving of save and get at their awaits, the
\* updatedAt of the record that localStorage holds for a key and of the
\* record that IndexedDB holds for it never decreases, and once no call is
\* suspended both tiers hold the record of the most recent save of the key
\* (IndexedDB when it is open).
C24_LocalTiersNeverGoBackwards ==
  [][\A k \in Keys :
       /\ lsItems'[k].updatedAt >= lsItems[k].updatedAt
       /\ idb'[k].updatedAt >= idb[k].updatedAt
       /\ (pending' = NoPending /\ hist'.lastWrite[k].kind = "save")
            => /\ lsItems'[k] = hist'.lastWrite[k].rec
               /\ db => idb'[k] = hist'.lastWrite[k].rec]_vars

\* C25: while no delete is issued, the updatedAt of the record that the
\* Remote Store holds for a key never decreases (stated for the keys whose
\* direct online save did not run while a drain was in flight: an entry left
\* in the queue never overwrites a newer record written directly).
C25_RemoteMonotonic ==
  [][\A k \in Keys :
       (hist'.noDelete /\ hist'.raced[k] = Null)
         => remote'[k].updatedAt >= remote[k].updatedAt]_vars

\* C26: when the promise returned by syncPendingChanges (awaited by
\* handleOnline and by the visibilitychange handler) resolves, every queue
\* entry that the drain read has had its remote operation attempted: the
\* drain has no entry left to attempt.
C26_DrainCompletionObservable ==
  [][\A d \in DrainIds :
       (handleOnline(d) \/ visibilityChange(d)) => ~drains'[d].active]_vars

\* C27: a save whose IndexedDB put fails (the request errors or cannot be
\* created) while its localStorage write succeeds does not throw and still
\* performs its remote step: the Firebase write when Firebase is reachable,
\* otherwise the enqueue.
C27_DurableFailureDegrades ==
  [][\A collection \in Collections, id \in Ids, timestamp \in Clock,
        idbOutcome \in IdbOutcomes \ {"ok"} :
       (/\ id \in IdsOf(collection)
        /\ db
        /\ save(collection, id, hist.saves[<<collection, id>>] + 1, timestamp,
                TRUE, idbOutcome, TRUE))
       => /\ ret'.result # "throw"
          /\ IF isOnline /\ isFirebaseAvailable
               THEN remote'[<<collection, id>>] = ret'.rec
               ELSE syncQueue'[id] # NoEntry]_vars

QueueSize(queue) == Cardinality({i \in Ids : queue[i] # NoEntry})

\* C28: every enqueue adds a new entry under a key of its own, whatever
\* record it refers to: a save or delete that takes the queue path leaves
\* every earlier entry in place and makes the queue one entry longer.
C28_EnqueueAppends ==
  [][\A collection \in Collections, id \in Ids, timestamp \in Clock :
       (/\ id \in IdsOf(collection)
        /\ db /\ ~(isOnline /\ isFirebaseAvailable)
        /\ \/ save(collection, id, hist.saves[<<collection, id>>] + 1,
                   timestamp, TRUE, "ok", TRUE)
           \/ delete(collection, id, "ok", TRUE))
       => /\ \A i \in Ids : syncQueue[i] # NoEntry => syncQueue'[i] = syncQueue[i]
          /\ QueueSize(syncQueue') = QueueSize(syncQueue) + 1]_vars

\* C29: after a get served by IndexedDB localStorage holds the returned
\* record; after a get served by Firebase localStorage and IndexedDB (when
\* it is open) hold the returned record; a get served by localStorage
\* changes no tier (stated for the gets whose tier operations do not fail).
C29_ReadBackfill ==
  [][(reads' = reads + 1 /\ ret'.op = "get" /\ ~ret'.faults)
       => LET k == <<ret'.collection, ret'.id>>
          IN  /\ remote' = remote
              /\ ret'.result = "indexedDB"
                   => (lsItems'[k] = ret'.rec /\ idb' = idb)
              /\ ret'.result = "firebase"
                   => (lsItems'[k] = ret'.rec /\ (db => idb'[k] = ret'.rec))
              /\ ret'.result = "localStorage"
                   => (lsItems' = lsItems /\ lsIndex' = lsIndex /\ idb' = idb)]_vars

\* a get was served by Firebase and both local tiers took the record
C29_Witness ==
  /\ ret.op = "get" /\ ~ret.faults /\ ret.result = "firebase"
  /\ ret.rec # Null
  /\ db
  /\ lsItems[<<ret.collection, ret.id>>] = ret.rec
  /\ idb[<<ret.collection, ret.id>>] = ret.rec

\* C30: a drain whose remote operation fails for one entry goes on to the
\* next entry of its list in the same pass (it ends only behind the last
\* entry), and an entry attempted after a failed one is applied to the
\* Remote Store when its own remote operation succeeds.
C30_SkipAndContinue ==
  [][\A d \in DrainIds :
       LET item == drains[d].items[drains[d].idx]
       IN  /\ (drains[d].active /\ drainStep(d, FALSE))
                => IF drains[d].idx < Len(drains[d].items)
                     THEN /\ drains'[d].active
                          /\ drains'[d].items = drains[d].items
                          /\ drains'[d].idx = drains[d].idx + 1
                     ELSE ~drains'[d].active
           /\ (drains[d].active /\ drains[d].failed # {} /\ drainStep(d, TRUE))
                => remote'[KeyOf(item)] = item.data]_vars

\* of two queued saves, the one that was enqueued later and is listed
\* behind the other has been delivered by a drain, and the other, which the
\* drain attempted first, has not: the drain went on after its failure
C30_Witness ==
  \E i, j \in Ids :
    /\ i < j
    /\ syncQueue[i].operation = "save" /\ syncQueue[j].operation = "save"
    /\ syncQueue[i].timestamp < syncQueue[j].timestamp
    /\ remote[KeyOf(syncQueue[j])] = syncQueue[j].data
    /\ remote[KeyOf(syncQueue[i])] # syncQueue[i].data
    /\ hist.nFaults > 0

\* the ids listed by a collection's index item (none when the item is absent)
IndexIds(index) ==
  IF index = NullIndex THEN {} ELSE {index[n] : n \in 1..Len(index)}

\* the ids of a collection whose item localStorage holds
HeldIds(collection) ==
  {i \in IdsOf(collection) : lsItems[<<collection, i>>] # Null}

\* C31: as long as no tier operation has failed, the index of every
\* collection lists each id at most once and lists exactly the ids whose
\* record was written to localStorage and not deleted afterwards, and
\* getAllFromLocalStorage returns exactly the records of those ids.
C31_IndexConsistency ==
  hist.nFaults = 0
    => \A c \in Collections :
         LET list == getAllFromLocalStorage(lsItems, lsIndex, c)
         IN  /\ IndexIds(lsIndex[c]) = HeldIds(c)
             /\ lsIndex[c] # NullIndex
                  => Len(lsIndex[c]) = Cardinality(IndexIds(lsIndex[c]))
             /\ {list[n] : n \in 1..Len(list)}
                  = {lsItems[<<c, i>>] : i \in HeldIds(c)}
             /\ Len(list) = Cardinality(HeldIds(c))

\* C32: a save or delete of (c, id) leaves unchanged, in localStorage,
\* IndexedDB and Firebase, every record of another collection or another
\* id, the index of every other collection and every pending queue entry of
\* another collection or id (also one with the same id in another
\* collection), and adds at most one queue entry, which is for (c, id).
C32_CrossKeyIndependence ==
  [][(writes' = writes + 1)
       => LET k == <<ret'.collection, ret'.id>>
          IN  /\ \A k2 \in Keys \ {k} :
                   /\ lsItems'[k2] = lsItems[k2]
                   /\ idb'[k2] = idb[k2]
                   /\ remote'[k2] = remote[k2]
              /\ \A c \in Collections \ {k[1]} : lsIndex'[c] = lsIndex[c]
              /\ \A i \in Ids :
                   IF syncQueue[i] # NoEntry
                     THEN KeyOf(syncQueue[i]) # k => syncQueue'[i] = syncQueue[i]
                     ELSE syncQueue'[i] # NoEntry => KeyOf(syncQueue'[i]) = k
              /\ QueueSize(syncQueue') <= QueueSize(syncQueue) + 1]_vars

\* an offline save of players/1 was accepted while the queue held an entry
\* for teams/1, the same id in another collection, and that entry and the
\* record of teams/1 are in place
C32_Witness ==
  /\ ret.op = "save" /\ ret.result = "true" /\ ret.remote = "none"
  /\ ret.collection = "players" /\ ret.id = 1
  /\ lsItems[<<"players", 1>>] = ret.rec
  /\ lsItems[<<"teams", 1>>] # Null
  /\ syncQueue[1].collection = "teams"
  /\ syncQueue[1].data = lsItems[<<"teams", 1>>]


\* C33: a confirmed clearAll leaves no record and no index item in
\* localStorage and, when the database is open, no record in any object store
\* and no entry in the pending-write queue; it leaves the remote tree exactly
\* as it was, so the discarded queue entries are not applied by it.
C33_ClearAllDiscards ==
  [][clearAll(TRUE)
       => /\ \A k \in Keys : lsItems'[k] = Null /\ (db => idb'[k] = Null)
          /\ \A c \in Collections : lsIndex'[c] = NullIndex
          /\ db => \A i \in Ids : syncQueue'[i] = NoEntry
          /\ remote' = remote]_vars

C33_Witness ==
  /\ ret.op = "clearAll" /\ ret.result = "true"
  /\ db
  /\ hist.allOffline
  /\ hist.lastWrite[<<"teams", 1>>].kind = "save"
  /\ remote = EmptyStore
  /\ syncQueue = EmptyQueue
  /\ lsItems = EmptyStore
  /\ idb = EmptyStore


\* C34: whatever addPlayer, movePlayer and removePlayer calls were made on a
\* team, its stored roster has at most 5 starters and lists no player id
\* twice across starters and bench; an addPlayer to 'starters' that throws
\* because the lineup is full leaves the stored roster as it was.
RosterIds(r) ==
  {r.starters[n] : n \in 1..Len(r.starters)} \cup {r.bench[n] : n \in 1..Len(r.bench)}

C34_RosterInvariant ==
  /\ [](/\ Len(roster.starters) <= 5
        /\ Cardinality(RosterIds(roster)) = Len(roster.starters) + Len(roster.bench))
  /\ [][(ret'.op = "addPlayer" /\ ret'.result = "Starting lineup is full")
          => roster' = roster]_vars

C34_Witness ==
  /\ ret.op = "addPlayer" /\ ret.result = "Starting lineup is full"
  /\ Len(roster.starters) = 5
  /\ Len(roster.bench) = 1

====
